---- MODULE Spec2Model ----
(***************************************************************************)
(* Model of coming-soon/app/page.tsx: the root App component (a loading    *)
(* flag, a one-shot 800 ms timer and its cleanup), the AnimatePresence     *)
(* switch (mode="wait") between Loader and LandingPage, and the            *)
(* LandingPage effect that sets document.title and upserts the             *)
(* <meta name="description"> tag.                                          *)
(*                                                                         *)
(* Time is a simulated clock in milliseconds.  React work (passive         *)
(* effects) is flushed before the clock advances or the root is torn down, *)
(* and a due timer or a finished exit animation is served before the clock *)
(* moves past it.  The length of the Loader's exit is left open between 0  *)
(* and the declared transition duration.                                   *)
(***************************************************************************)
EXTENDS Integers, Sequences, FiniteSets, TLC

VARIABLES appState, strictMode, isLoading, appEffectRuns, timers, timer,
          views, exitStart, landingEffectRuns, document, clock,
          fireCount, tornEarly, trace, document0, documentOnce

vars == <<appState, strictMode, isLoading, appEffectRuns, timers, timer,
          views, exitStart, landingEffectRuns, document, clock,
          fireCount, tornEarly, trace, document0, documentOnce>>

(* ---------------- bounds of the model ---------------- *)
MaxClock == 2000
TickStep == 200
MaxHeadLen == 2

(* ---------------- program constants ---------------- *)
SetTimeoutDelayShort == 800 - 300
SetTimeoutDelay == 800
ExitDuration == 800

TITLE == "Timothé Fardella | First Blockchain Portfolio Coming Soon"
DESCRIPTION == "My new blockchain portfolio website is currently under construction. Coming soon."

UseStateInitFalse == FALSE
UseStateInit == TRUE

(* ---------------- the hosting document ---------------- *)
MetaNames == {"description", "viewport"}
MetaContents == {"old description", DESCRIPTION}
Titles == {"Old title", TITLE}
MetaTags == [name : MetaNames, content : MetaContents]
Heads == UNION {[1..n -> MetaTags] : n \in 0..MaxHeadLen}
Documents == [title : Titles, head : Heads]

Min(S) == CHOOSE x \in S : \A y \in S : x <= y

DescriptionIndexes(head) == {i \in 1..Len(head) : head[i].name = "description"}

\* document.querySelector('meta[name="description"]'): index of the first
\* matching element in document order, 0 for null
QuerySelector(head) ==
  IF DescriptionIndexes(head) = {} THEN 0 ELSE Min(DescriptionIndexes(head))

NewMeta == [name |-> "description", content |-> DESCRIPTION]

RemoveAt(s, i) == [j \in 1..(Len(s) - 1) |-> IF j < i THEN s[j] ELSE s[j + 1]]

\* mutant: creates the tag when absent, leaves an existing tag untouched
SetMetadataCreateOnly(doc) ==
  LET i == QuerySelector(doc.head) IN
  [title |-> TITLE,
   head  |-> IF i # 0 THEN doc.head ELSE Append(doc.head, NewMeta)]

\* mutant: always creates and appends a new tag
SetMetadataAlwaysAppend(doc) ==
  [title |-> TITLE, head |-> Append(doc.head, NewMeta)]

\* mutant: replaces the existing tag by a fresh one appended to the head
SetMetadataReplace(doc) ==
  LET i == QuerySelector(doc.head) IN
  [title |-> TITLE,
   head  |-> IF i # 0 THEN Append(RemoveAt(doc.head, i), NewMeta)
                      ELSE Append(doc.head, NewMeta)]

\* the body of LandingPage's effect
SetMetadata(doc) ==
  LET i == QuerySelector(doc.head) IN
  [title |-> TITLE,
   head  |-> IF i # 0 THEN [doc.head EXCEPT ![i].content = DESCRIPTION]
                      ELSE Append(doc.head, NewMeta)]

(* ---------------- the view switch ---------------- *)
Views == {"Loader", "LandingPage"}
OtherChild(v) == IF v = "Loader" THEN "LandingPage" ELSE "Loader"
NoViews == [v \in Views |-> "unmounted"]

\* mutant: the ternary's branches swapped
ActiveChildSwapped(isL) == IF isL THEN "LandingPage" ELSE "Loader"

\* {isLoading ? <Loader key="loader" /> : <LandingPage key="landing" />}
ActiveChild(isL) == IF isL THEN "Loader" ELSE "LandingPage"

\* mutant: mode="sync", the incoming child mounts while the outgoing one exits
AnimatePresenceSync(want, vs) ==
  [v \in Views |-> IF v = want THEN "mounted"
                   ELSE IF vs[v] = "mounted" THEN "exiting" ELSE vs[v]]

\* <AnimatePresence mode="wait">: the outgoing child is kept until its exit
\* has completed, and only then is the incoming child mounted
AnimatePresence(want, vs) ==
  LET other == OtherChild(want) IN
  IF vs[other] = "mounted" THEN [vs EXCEPT ![other] = "exiting"]
  ELSE IF vs[other] = "exiting" THEN vs
  ELSE [vs EXCEPT ![want] = "mounted"]

\* App's render
Render(isL, vs) == AnimatePresence(ActiveChild(isL), vs)

\* exit={{ transition: { duration: 0.8 } }} on Loader; LandingPage has no exit
ExitLength(v) == IF v = "Loader" THEN ExitDuration ELSE 0

MountLog(old, new) ==
  IF old["LandingPage"] = "unmounted" /\ new["LandingPage"] = "mounted"
  THEN <<"mountLanding">> ELSE <<>>

ExitStart(old, new, now, es) ==
  IF \E v \in Views : old[v] # "exiting" /\ new[v] = "exiting" THEN now ELSE es

(* ---------------- timers ---------------- *)
\* mutant: the cleanup does not cancel the timer
ClearTimeoutNoop(ts, id) == ts

\* clearTimeout(timer)
ClearTimeout(ts, id) ==
  IF id \in 1..Len(ts) /\ ts[id].status = "pending"
  THEN [ts EXCEPT ![id].status = "cleared"] ELSE ts

\* mutant: setInterval, the timer is armed again after each run
TimerAfterFireInterval(t) == [t EXCEPT !.deadline = @ + SetTimeoutDelay]

\* setTimeout is one-shot
TimerAfterFire(t) == [t EXCEPT !.status = "fired"]

PendingTimers == {i \in 1..Len(timers) : timers[i].status = "pending"}

\* React StrictMode runs every mount effect twice (effect, cleanup, effect)
RequiredRuns == IF strictMode THEN 2 ELSE 1

PendingEffects ==
  /\ appState = "mounted"
  /\ \/ appEffectRuns < RequiredRuns
     \/ views["LandingPage"] = "mounted" /\ landingEffectRuns < RequiredRuns

(* ---------------- initial state: App has just been rendered ---------------- *)
Init ==
  /\ appState = "mounted"
  /\ strictMode \in BOOLEAN
  /\ isLoading = UseStateInit
  /\ appEffectRuns = 0
  /\ timers = <<>>
  /\ timer = 0
  /\ views = Render(UseStateInit, NoViews)
  /\ exitStart = -1
  /\ landingEffectRuns = 0
  /\ document \in Documents
  /\ clock = 0
  /\ fireCount = 0
  /\ tornEarly = FALSE
  /\ trace = MountLog(NoViews, Render(UseStateInit, NoViews))
  /\ document0 = document
  /\ documentOnce = document

(* ---------------- actions ---------------- *)
\* App's useEffect: (cleanup of the previous run, then) setTimeout(cb, 800)
AppEffect ==
  /\ appState = "mounted"
  /\ appEffectRuns < RequiredRuns
  /\ LET cleaned == IF appEffectRuns > 0 THEN ClearTimeout(timers, timer)
                                         ELSE timers
     IN /\ timers' = Append(cleaned, [deadline |-> clock + SetTimeoutDelay,
                                      status   |-> "pending"])
        /\ timer' = Len(cleaned) + 1
  /\ appEffectRuns' = appEffectRuns + 1
  /\ UNCHANGED <<appState, strictMode, isLoading, views, exitStart,
                 landingEffectRuns, document, clock, fireCount, tornEarly,
                 trace, document0, documentOnce>>

\* the timer callback: setIsLoading(false), then the re-render
TimerFire(id) ==
  /\ id \in PendingTimers
  /\ timers[id].deadline <= clock
  /\ ~PendingEffects
  /\ timers' = [timers EXCEPT ![id] = TimerAfterFire(@)]
  /\ fireCount' = fireCount + 1
  /\ IF appState = "mounted" /\ isLoading
     THEN LET new == Render(FALSE, views) IN
          /\ isLoading' = FALSE
          /\ views' = new
          /\ exitStart' = ExitStart(views, new, clock, exitStart)
          /\ trace' = trace \o <<"fire">> \o MountLog(views, new)
     ELSE /\ trace' = Append(trace, "fire")
          /\ UNCHANGED <<isLoading, views, exitStart>>
  /\ landingEffectRuns' =
       IF views["LandingPage"] # "mounted" /\ views'["LandingPage"] = "mounted"
       THEN 0 ELSE landingEffectRuns
  /\ UNCHANGED <<appState, strictMode, appEffectRuns, timer, document, clock,
                 tornEarly, document0, documentOnce>>

\* the exit animation of a view completes: AnimatePresence removes it and
\* renders its children again
ExitComplete(v) ==
  /\ appState = "mounted"
  /\ views[v] = "exiting"
  /\ ~PendingEffects
  /\ clock <= exitStart + ExitLength(v)
  /\ LET gone == [views EXCEPT ![v] = "unmounted"]
         new  == Render(isLoading, gone)
     IN /\ views' = new
        /\ exitStart' = ExitStart(gone, new, clock, -1)
        /\ trace' = trace
                    \o (IF v = "Loader" THEN <<"unmountLoader">> ELSE <<>>)
                    \o MountLog(gone, new)
        /\ landingEffectRuns' =
             IF gone["LandingPage"] # "mounted" /\ new["LandingPage"] = "mounted"
             THEN 0 ELSE landingEffectRuns
  /\ UNCHANGED <<appState, strictMode, isLoading, appEffectRuns, timers, timer,
                 document, clock, fireCount, tornEarly, document0, documentOnce>>

\* LandingPage's useEffect
LandingEffect ==
  /\ appState = "mounted"
  /\ views["LandingPage"] = "mounted"
  /\ landingEffectRuns < RequiredRuns
  /\ document' = SetMetadata(document)
  /\ documentOnce' = IF landingEffectRuns = 0 THEN SetMetadata(document)
                                              ELSE documentOnce
  /\ landingEffectRuns' = landingEffectRuns + 1
  /\ trace' = Append(trace, "effect")
  /\ UNCHANGED <<appState, strictMode, isLoading, appEffectRuns, timers, timer,
                 views, exitStart, clock, fireCount, tornEarly, document0>>

\* the root is unmounted: both views go, the effect's cleanup runs
Teardown ==
  /\ appState = "mounted"
  /\ ~PendingEffects
  /\ appState' = "torn"
  /\ timers' = ClearTimeout(timers, timer)
  /\ views' = NoViews
  /\ exitStart' = -1
  /\ tornEarly' = (fireCount = 0)
  /\ UNCHANGED <<strictMode, isLoading, appEffectRuns, timer,
                 landingEffectRuns, document, clock, fireCount, trace,
                 document0, documentOnce>>

Deadlines ==
  {timers[i].deadline : i \in PendingTimers}
  \cup {exitStart + ExitLength(v) : v \in {w \in Views : views[w] = "exiting"}}

\* the simulated clock advances, never past a due timer or exit
Tick ==
  /\ ~PendingEffects
  /\ clock < MaxClock
  /\ \A d \in Deadlines : d > clock
  /\ clock' = Min({clock + TickStep, MaxClock} \cup Deadlines)
  /\ UNCHANGED <<appState, strictMode, isLoading, appEffectRuns, timers, timer,
                 views, exitStart, landingEffectRuns, document, fireCount,
                 tornEarly, trace, document0, documentOnce>>

Next ==
  \/ AppEffect
  \/ \E id \in 1..Len(timers) : TimerFire(id)
  \/ \E v \in Views : ExitComplete(v)
  \/ LandingEffect
  \/ Teardown
  \/ Tick

Spec == Init /\ [][Next]_vars

(* ======================= claims ======================= *)
NoTimerFired == fireCount = 0
DescriptionCount(head) == Cardinality(DescriptionIndexes(head))
IsPrefix(s, t) == Len(s) <= Len(t) /\ \A i \in 1..Len(s) : s[i] = t[i]
Max2(a, b) == IF a >= b THEN a ELSE b

\* C1: as long as the App is mounted and the timer has not fired (in
\* particular right after mount, before its effect has even started the
\* timer), the loading flag is true, the Loader is displayed and the
\* LandingPage is not.
C1_LoadingAfterMount ==
  (appState = "mounted" /\ NoTimerFired) =>
    /\ isLoading
    /\ views["Loader"] = "mounted"
    /\ views["LandingPage"] = "unmounted"

C1_Witness ==
  /\ appState = "mounted" /\ clock = 0 /\ appEffectRuns = 0 /\ timers = <<>>
  /\ isLoading /\ views["Loader"] = "mounted"

\* C2: the loading flag only ever changes from true to false, and only in a
\* step in which a timer callback runs; a false flag stays false; the
\* callback runs at most once and no timer is started once one has fired.
C2_FlagFlipsOnce ==
  [][ /\ (isLoading' # isLoading) =>
           (isLoading /\ ~isLoading' /\ fireCount' = fireCount + 1)
      /\ (~isLoading => ~isLoading')
      /\ fireCount' <= 1
      /\ (fireCount > 0 =>
            (Len(timers') = Len(timers) /\ PendingTimers' = {})) ]_vars

C2_Witness ==
  /\ ~isLoading /\ fireCount = 1 /\ clock > SetTimeoutDelay
  /\ appState = "mounted"

\* C3: once the App has been torn down before the timer fired, no timer is
\* pending any more, the callback has not run and the loading flag is still
\* true, in every later state.
C3_TeardownCancelsTimer ==
  tornEarly =>
    /\ PendingTimers = {}
    /\ fireCount = 0
    /\ isLoading

C3_Witness ==
  /\ tornEarly /\ clock > SetTimeoutDelay
  /\ \E i \in 1..Len(timers) : timers[i].status = "cleared"

\* C4 as stated: before 800 ms the Loader is displayed, and once the 800 ms
\* timer has fired the Loader is no longer displayed and the LandingPage is.
C4_Original ==
  /\ (appState = "mounted" /\ clock < 800) =>
       (views["Loader"] = "mounted" /\ views["LandingPage"] = "unmounted")
  /\ (appState = "mounted" /\ fireCount > 0) =>
       (views["Loader"] = "unmounted" /\ views["LandingPage"] = "mounted")

\* C4 amended: before 800 ms the Loader is displayed and the LandingPage is
\* not; once the timer has fired at 800 ms the flag is false and the Loader
\* is exiting or gone; the LandingPage is displayed as soon as the Loader has
\* been unmounted, which is the case at the latest when the exit transition
\* of 0.8 s is over.
C4_ContentAfterTimerAndExit ==
  /\ (appState = "mounted" /\ clock < 800) =>
       (views["Loader"] = "mounted" /\ views["LandingPage"] = "unmounted")
  /\ (appState = "mounted" /\ fireCount > 0) =>
       /\ clock >= 800
       /\ ~isLoading
       /\ views["Loader"] # "mounted"
       /\ (views["Loader"] = "unmounted" <=> views["LandingPage"] = "mounted")
  /\ (appState = "mounted" /\ clock > 800 + 800) =>
       (views["Loader"] = "unmounted" /\ views["LandingPage"] = "mounted")

C4_Witness ==
  /\ appState = "mounted" /\ clock = 800 /\ fireCount = 1
  /\ views["Loader"] = "unmounted" /\ views["LandingPage"] = "mounted"

\* C5: at most one of the two views is mounted in every state; while the
\* Loader is exiting it is still mounted and the LandingPage is not.
C5_AtMostOneView ==
  /\ ~(views["Loader"] # "unmounted" /\ views["LandingPage"] # "unmounted")
  /\ views["Loader"] = "exiting" => views["LandingPage"] = "unmounted"

C5_Witness ==
  /\ views["Loader"] = "exiting" /\ clock > exitStart
  /\ views["LandingPage"] = "unmounted"

\* C6: the events of the transition happen in the order timer fire, Loader
\* unmount, LandingPage mount, metadata effect (the effect twice under
\* StrictMode); the LandingPage is mounted only after the timer fired and
\* the Loader was unmounted, and the effect runs only after the mount.
\* (The unmount of the views by a teardown of the root is not an event of
\* the transition.)
C6_Order ==
  /\ IsPrefix(trace, <<"fire", "unmountLoader", "mountLanding",
                       "effect", "effect">>)
  /\ views["LandingPage"] = "mounted" =>
       (fireCount > 0 /\ views["Loader"] = "unmounted")
  /\ landingEffectRuns > 0 =>
       \E i \in 1..Len(trace) : trace[i] = "mountLanding"

C6_Witness ==
  /\ Len(trace) >= 4
  /\ trace[4] = "effect"
  /\ landingEffectRuns > 0

\* C7: once the LandingPage effect has run, the document title is the fixed
\* title and the description meta tag (the first one, which querySelector
\* finds) exists and holds the fixed description, whatever the document was.
C7_MetadataSet ==
  landingEffectRuns >= 1 =>
    /\ document.title = TITLE
    /\ QuerySelector(document.head) # 0
    /\ document.head[QuerySelector(document.head)].content = DESCRIPTION

C7_Witness ==
  /\ landingEffectRuns >= 1
  /\ QuerySelector(document0.head) # 0
  /\ document0.head[QuerySelector(document0.head)].content # DESCRIPTION
  /\ document0.title # TITLE

\* C8: after the effect has run twice the document (title, description
\* content, number of description tags) is the document after its first run.
C8_Idempotent ==
  landingEffectRuns = 2 =>
    /\ document = documentOnce
    /\ DescriptionCount(document.head) = DescriptionCount(documentOnce.head)

C8_Witness ==
  /\ landingEffectRuns = 2
  /\ QuerySelector(document0.head) = 0
  /\ document # document0

\* C9: the effect upserts the description: with no description tag it
\* appends exactly one to the head; with a tag present it creates none and
\* rewrites the content of the existing (first) one in place; the number of
\* description tags is max(initial number, 1).
C9_Upsert ==
  landingEffectRuns >= 1 =>
    LET i == QuerySelector(document0.head) IN
    /\ DescriptionCount(document.head)
         = Max2(DescriptionCount(document0.head), 1)
    /\ i = 0 => document.head = Append(document0.head, NewMeta)
    /\ i # 0 =>
         /\ Len(document.head) = Len(document0.head)
         /\ \A j \in 1..Len(document0.head) :
              /\ document.head[j].name = document0.head[j].name
              /\ j # i => document.head[j] = document0.head[j]
         /\ document.head[i].content = DESCRIPTION

C9_Witness ==
  /\ landingEffectRuns >= 1
  /\ DescriptionCount(document0.head) = 2
  /\ document0.head[1].content # DESCRIPTION
  /\ document.head[2] = document0.head[2]

\* C10: while the loading flag is true the document is the document from
\* before the mount and the LandingPage is not mounted; this includes every
\* state after a teardown before the timer fired.
C10_MetadataUntouchedWhileLoading ==
  /\ isLoading =>
       /\ document = document0
       /\ views["LandingPage"] = "unmounted"
       /\ landingEffectRuns = 0
  /\ tornEarly =>
       /\ isLoading
       /\ ~(\E i \in 1..Len(trace) : trace[i] = "mountLanding")

C10_Witness ==
  /\ tornEarly /\ clock = MaxClock
  /\ document = document0 /\ document.title # TITLE

====
